---- MODULE Spec2Model ----
(***************************************************************************)
(* Model of node/subsystem-test-helpers/src/lib.rs:                        *)
(*   - the single-item sink/stream pair (SinkState, SingleItemSink,         *)
(*     SingleItemStream),                                                   *)
(*   - the test subsystem context and its handle driven by two tasks,       *)
(*   - the Timeout combinator,                                              *)
(*   - subsystem_test_harness.                                              *)
(***************************************************************************)
EXTENDS Integers, Sequences, FiniteSets, TLC

\* ---------------------------------------------------------------- bounds
\* Number of values a writer passes to start_send in one run.
MaxSends == 2
\* Number of distinct message values.
NumValues == 2
\* Number of suspended recv futures dropped in one run.
MaxRecvDrops == 1

Values == 1..NumValues

\* Option<Waker>: a waker or None.
None == "None"

\* Option<T> for items: Nothing or Some(v).
Nothing == <<>>
Some(v) == <<v>>

\* The two tasks of the channel model and their wakers (cx.waker()).
WriterWaker == "w"
ReaderWaker == "r"
Wakers == {WriterWaker, ReaderWaker}

\* ------------------------------------------------ SinkState (lines 36-45)
Empty(read_waker) == [tag |-> "Empty", read_waker |-> read_waker]

Item(item, ready_waker, flush_waker) ==
    [tag |-> "Item", item |-> item,
     ready_waker |-> ready_waker, flush_waker |-> flush_waker]

SinkState ==
    {Empty(rw) : rw \in Wakers \cup {None}}
    \cup {Item(it, a, b) : it \in Values, a \in Wakers \cup {None},
                           b \in Wakers \cup {None}}

\* single_item_sink(): the shared cell starts Empty with no read waker.
single_item_sink == Empty(None)

\* `if let Some(waker) = opt { waker.wake() }`: the wakers invoked, in order.
WakeOpt(opt) == IF opt = None THEN <<>> ELSE <<opt>>

\* Every handler below returns the new cell, the value returned to the
\* caller, the item handed out (poll_next) and the wakers it invoked.
Outcome(state, ret, val, wakes) ==
    [state |-> state, ret |-> ret, val |-> val, wakes |-> wakes]

\* ------------------------------------- impl Sink for SingleItemSink
poll_ready_always_ready(st, wk) == Outcome(st, "Ready", Nothing, <<>>)

poll_ready_keeps_first_waker(st, wk) ==
    IF st.tag = "Empty"
    THEN Outcome(st, "Ready", Nothing, <<>>)
    ELSE Outcome([st EXCEPT !.ready_waker = IF @ = None THEN wk ELSE @],
                 "Pending", Nothing, <<>>)

poll_ready(st, wk) ==
    IF st.tag = "Empty"
    THEN Outcome(st, "Ready", Nothing, <<>>)
    ELSE Outcome([st EXCEPT !.ready_waker = wk], "Pending", Nothing, <<>>)

start_send_no_wake(st, item) ==
    IF st.tag = "Empty"
    THEN Outcome(Item(item, None, None), "Ok", Nothing, <<>>)
    ELSE Outcome(st, "Panic", Nothing, <<>>)

start_send_stores_other(st, item) ==
    IF st.tag = "Empty"
    THEN Outcome(Item(item + 1, None, None), "Ok", Nothing,
                 WakeOpt(st.read_waker))
    ELSE Outcome(st, "Panic", Nothing, <<>>)

start_send_sets_flush_waker(st, item) ==
    IF st.tag = "Empty"
    THEN Outcome(Item(item, None, WriterWaker), "Ok", Nothing,
                 WakeOpt(st.read_waker))
    ELSE Outcome(st, "Panic", Nothing, <<>>)

start_send(st, item) ==
    IF st.tag = "Empty"
    THEN Outcome(Item(item, None, None), "Ok", Nothing, WakeOpt(st.read_waker))
    ELSE Outcome(st, "Panic", Nothing, <<>>)

poll_flush_when_buffered(st, wk) == Outcome(st, "Ready", Nothing, <<>>)

poll_flush_arms_swapped(st, wk) ==
    IF st.tag = "Empty"
    THEN Outcome(st, "Pending", Nothing, <<>>)
    ELSE Outcome(st, "Ready", Nothing, <<>>)

poll_flush(st, wk) ==
    IF st.tag = "Empty"
    THEN Outcome(st, "Ready", Nothing, <<>>)
    ELSE Outcome([st EXCEPT !.flush_waker = wk], "Pending", Nothing, <<>>)

poll_close_via_poll_ready(st, wk) == poll_ready(st, wk)

poll_close(st, wk) == poll_flush(st, wk)

\* ------------------------------------- impl Stream for SingleItemStream
\* mem::replace(&mut *state, Empty { read_waker: Some(cx.waker()) }) comes
\* first, whatever the cell held.
poll_next_forgets_flush_waker(st, wk) ==
    IF st.tag = "Empty"
    THEN Outcome(Empty(wk), "Pending", Nothing, <<>>)
    ELSE Outcome(Empty(wk), "Ready", Some(st.item), WakeOpt(st.ready_waker))

poll_next_no_waker_on_item(st, wk) ==
    IF st.tag = "Empty"
    THEN Outcome(Empty(wk), "Pending", Nothing, <<>>)
    ELSE Outcome(Empty(None), "Ready", Some(st.item),
                 WakeOpt(st.ready_waker) \o WakeOpt(st.flush_waker))

poll_next_leaves_item(st, wk) ==
    IF st.tag = "Empty"
    THEN Outcome(Empty(wk), "Pending", Nothing, <<>>)
    ELSE Outcome(st, "Ready", Some(st.item),
                 WakeOpt(st.ready_waker) \o WakeOpt(st.flush_waker))

poll_next(st, wk) ==
    IF st.tag = "Empty"
    THEN Outcome(Empty(wk), "Pending", Nothing, <<>>)
    ELSE Outcome(Empty(wk), "Ready", Some(st.item),
                 WakeOpt(st.ready_waker) \o WakeOpt(st.flush_waker))

\* =====================================================================
\* The channel driven by two tasks: the overseer side holding
\* TestSubsystemContextHandle (writer) and the subsystem side holding
\* TestSubsystemContext (reader).  Every call into the shared cell is one
\* step (the Mutex is held for the whole call and never across calls), and
\* a task that returned Pending runs again only after its waker was invoked.
\* =====================================================================
VARIABLES
    state,      \* the Arc<Mutex<SinkState<T>>> shared by both halves
    w,          \* writer task: position, item being sent, its index in sent
    r,          \* reader task: position, result of its last receive, recvs dropped
    notified,   \* per waker: invoked and the task not yet polled again
    sent,       \* values stored by start_send, in order
    received,   \* values returned by poll_next, in order
    log,        \* read starts, read completions and send completions, in order
    last,       \* the last call into the cell: cell before, result, wakers invoked
    tmo,        \* a Timeout<F>: its Delay, its wrapped future, its last poll
    hn,         \* a run of subsystem_test_harness
    reg         \* the registrations made by the callers of one cell, per role

chanVars == <<state, w, r, notified, sent, received, log, last>>

NoCall == [op |-> "none", by |-> None, pre |-> single_item_sink,
           pre_w |-> "idle", pre_r |-> "idle",
           ret |-> None, val |-> Nothing, wakes |-> <<>>]

Call(op, by, out) ==
    [op |-> op, by |-> by, pre |-> state, pre_w |-> w.pc, pre_r |-> r.pc,
     ret |-> out.ret, val |-> out.val, wakes |-> out.wakes]

\* Waker::wake() marks the task for another poll.
Notify(wakes) ==
    [t \in Wakers |-> notified[t] \/ \E i \in 1..Len(wakes) : wakes[i] = t]

WriterParked == {"parked_ready", "parked_flush", "parked_close"}

NoResult == [kind |-> "none", val |-> Nothing]

\* No registration by any caller yet.
NoRegistrations ==
    [read |-> None, ready |-> None, flush |-> None,
     staleRead |-> {}, staleReady |-> {}, staleFlush |-> {},
     may_start |-> FALSE, expect |-> <<>>, passed |-> {}]

InitChannel ==
    /\ state = single_item_sink
    /\ w = [pc |-> "idle", item |-> Nothing, idx |-> 0]
    /\ r = [pc |-> "idle", res |-> NoResult, drops |-> 0]
    /\ notified = [t \in Wakers |-> FALSE]
    /\ sent = <<>>
    /\ received = <<>>
    /\ log = <<>>
    /\ last = NoCall
    /\ reg = NoRegistrations

\* ------------------------- TestSubsystemContextHandle::send (SinkExt::send)
\* handle.send(v): the send future is created holding the item.
Send(v) ==
    /\ w.pc = "idle"
    /\ Len(sent) < MaxSends
    /\ w' = [pc |-> "ready", item |-> Some(v), idx |-> 0]
    /\ last' = NoCall
    /\ UNCHANGED <<state, r, notified, sent, received, log, tmo, hn, reg>>

SendPollReady ==
    /\ w.pc = "ready"
    /\ LET out == poll_ready(state, WriterWaker) IN
        /\ state' = out.state
        /\ w' = [w EXCEPT !.pc = IF out.ret = "Ready" THEN "start"
                                 ELSE "parked_ready"]
        /\ last' = Call("poll_ready", WriterWaker, out)
    /\ UNCHANGED <<r, notified, sent, received, log, tmo, hn, reg>>

SendStartSend ==
    /\ w.pc = "start"
    /\ LET out == start_send(state, w.item[1]) IN
        /\ state' = out.state
        /\ notified' = Notify(out.wakes)
        /\ last' = Call("start_send", WriterWaker, out)
        /\ IF out.ret = "Panic"
           THEN /\ w' = [w EXCEPT !.pc = "panicked"]
                /\ sent' = sent
           ELSE /\ w' = [w EXCEPT !.pc = "flush", !.idx = Len(sent) + 1]
                /\ sent' = Append(sent, w.item[1])
    /\ UNCHANGED <<r, received, log, tmo, hn, reg>>

SendPollFlush ==
    /\ w.pc = "flush"
    /\ LET out == poll_flush(state, WriterWaker) IN
        /\ state' = out.state
        /\ last' = Call("poll_flush", WriterWaker, out)
        /\ IF out.ret = "Ready"
           THEN /\ w' = [pc |-> "idle", item |-> Nothing, idx |-> 0]
                /\ log' = Append(log, <<"Wc", w.idx>>)
           ELSE /\ w' = [w EXCEPT !.pc = "parked_flush"]
                /\ log' = log
    /\ UNCHANGED <<r, notified, sent, received, tmo, hn, reg>>

\* SinkExt::close on the handle's sink: poll_close until Ready.
Close ==
    /\ w.pc = "idle"
    /\ w' = [w EXCEPT !.pc = "close"]
    /\ last' = NoCall
    /\ UNCHANGED <<state, r, notified, sent, received, log, tmo, hn, reg>>

ClosePoll ==
    /\ w.pc = "close"
    /\ LET out == poll_close(state, WriterWaker) IN
        /\ state' = out.state
        /\ last' = Call("poll_close", WriterWaker, out)
        /\ w' = [w EXCEPT !.pc = IF out.ret = "Ready" THEN "closed"
                                 ELSE "parked_close"]
    /\ UNCHANGED <<r, notified, sent, received, log, tmo, hn, reg>>

\* The executor polls the writer task again once its waker was invoked.
ExecutorPollWriter ==
    /\ w.pc \in WriterParked
    /\ notified[WriterWaker]
    /\ notified' = [notified EXCEPT ![WriterWaker] = FALSE]
    /\ w' = [w EXCEPT !.pc = CASE w.pc = "parked_ready" -> "ready"
                              [] w.pc = "parked_flush" -> "flush"
                              [] OTHER -> "close"]
    /\ last' = NoCall
    /\ UNCHANGED <<state, r, sent, received, log, tmo, hn, reg>>

AbandonSend_deregisters ==
    /\ w.pc \in {"parked_ready", "parked_flush"}
    /\ w' = [pc |-> "idle", item |-> Nothing, idx |-> 0]
    /\ state' = IF state.tag = "Item"
                THEN Item(state.item, None, None)
                ELSE state
    /\ last' = NoCall
    /\ UNCHANGED <<r, notified, sent, received, log, tmo, hn, reg>>

AbandonSend_retracts ==
    /\ w.pc \in {"parked_ready", "parked_flush"}
    /\ w' = [pc |-> "idle", item |-> Nothing, idx |-> 0]
    /\ state' = IF w.pc = "parked_flush" THEN Empty(None) ELSE state
    /\ last' = NoCall
    /\ UNCHANGED <<r, notified, sent, received, log, tmo, hn, reg>>

\* The suspended send future is dropped (its caller gave up on it).  Neither
\* SingleItemSink nor the send future touches the cell on drop.
AbandonSend ==
    /\ w.pc \in {"parked_ready", "parked_flush"}
    /\ w' = [pc |-> "idle", item |-> Nothing, idx |-> 0]
    /\ last' = NoCall
    /\ UNCHANGED <<state, r, notified, sent, received, log, tmo, hn, reg>>

\* TestSubsystemContextHandle is dropped.  SingleItemSink has no Drop impl:
\* only the Arc's count changes, the cell is left as it is and nobody is woken.
DropHandle ==
    /\ w.pc \in {"idle", "closed"} \cup WriterParked
    /\ w' = [pc |-> "dropped", item |-> Nothing, idx |-> 0]
    /\ last' = NoCall
    /\ UNCHANGED <<state, r, notified, sent, received, log, tmo, hn, reg>>

\* --------------------------------------------------- TestSubsystemContext
try_recv_result_arms_swapped(out) ==
    IF out.ret = "Pending" THEN [kind |-> "Err", val |-> Nothing]
    ELSE IF out.val = Nothing THEN [kind |-> "OkNone", val |-> Nothing]
    ELSE [kind |-> "Ok", val |-> out.val]

\* try_recv: match poll!(self.rx.next())
try_recv_result(out) ==
    IF out.ret = "Pending" THEN [kind |-> "OkNone", val |-> Nothing]
    ELSE IF out.val = Nothing THEN [kind |-> "Err", val |-> Nothing]
    ELSE [kind |-> "Ok", val |-> out.val]

\* recv: self.rx.next().await.ok_or(SubsystemError), once next() is Ready
recv_result(out) ==
    IF out.val = Nothing THEN [kind |-> "Err", val |-> Nothing]
    ELSE [kind |-> "Ok", val |-> out.val]

TryRecv ==
    /\ r.pc = "idle"
    /\ LET out == poll_next(state, ReaderWaker)
           res == try_recv_result(out) IN
        /\ state' = out.state
        /\ notified' = Notify(out.wakes)
        /\ last' = Call("try_recv", ReaderWaker, out)
        /\ r' = [r EXCEPT !.pc = "idle", !.res = res]
        /\ IF res.kind = "Ok"
           THEN /\ received' = Append(received, res.val[1])
                /\ log' = log \o << <<"Rs", Len(received) + 1>>,
                                    <<"Rc", Len(received) + 1>> >>
           ELSE UNCHANGED <<received, log>>
    /\ UNCHANGED <<w, sent, tmo, hn, reg>>

\* ctx.recv(): the receive future is created; its first poll follows.
Recv ==
    /\ r.pc = "idle"
    /\ r' = [r EXCEPT !.pc = "recv", !.res = NoResult]
    /\ log' = Append(log, <<"Rs", Len(received) + 1>>)
    /\ last' = NoCall
    /\ UNCHANGED <<state, w, notified, sent, received, tmo, hn, reg>>

RecvPoll ==
    /\ r.pc = "recv"
    /\ LET out == poll_next(state, ReaderWaker) IN
        /\ state' = out.state
        /\ notified' = Notify(out.wakes)
        /\ last' = Call("recv", ReaderWaker, out)
        /\ IF out.ret = "Pending"
           THEN /\ r' = [r EXCEPT !.pc = "parked"]
                /\ UNCHANGED <<received, log>>
           ELSE /\ r' = [r EXCEPT !.pc = "idle", !.res = recv_result(out)]
                /\ IF out.val = Nothing
                   THEN UNCHANGED <<received, log>>
                   ELSE /\ received' = Append(received, out.val[1])
                        /\ log' = Append(log, <<"Rc", Len(received) + 1>>)
    /\ UNCHANGED <<w, sent, tmo, hn, reg>>

\* The executor polls the reader task again once its waker was invoked.
ExecutorPollReader ==
    /\ r.pc = "parked"
    /\ notified[ReaderWaker]
    /\ notified' = [notified EXCEPT ![ReaderWaker] = FALSE]
    /\ r' = [r EXCEPT !.pc = "recv"]
    /\ last' = NoCall
    /\ UNCHANGED <<state, w, sent, received, log, tmo, hn, reg>>

\* The suspended recv future is dropped.  Neither SingleItemStream nor the
\* future returned by next() touches the cell on drop.
AbandonRecv ==
    /\ r.pc = "parked"
    /\ r.drops < MaxRecvDrops
    /\ r' = [pc |-> "idle", res |-> NoResult, drops |-> r.drops + 1]
    /\ last' = NoCall
    /\ UNCHANGED <<state, w, notified, sent, received, log, tmo, hn, reg>>

\* =====================================================================
\* The two halves called from any task.  Each poll of the sink or of the
\* stream comes with the waker of whatever task polls it, so one half can be
\* polled under different wakers over time.  The writer keeps to the Sink
\* protocol: start_send only after poll_ready returned Ready.  reg records,
\* per role, what the callers did: the waker of the latest poll that was
\* told to wait (registration), the wakers registered earlier and replaced
\* since (stale), cleared when the role is woken; expect is the sequence of
\* latest registrations the last call had to wake, and passed the wakers
\* that were stale for a role the last call woke.
\* =====================================================================
WriterWaker2 == "w2"
ReaderWaker2 == "r2"
SinkWakers == {WriterWaker, WriterWaker2}
StreamWakers == {ReaderWaker, ReaderWaker2}

Replaced(stale, old, new) ==
    (stale \cup (IF old = None THEN {} ELSE {old})) \ {new}

AnyPollReady(wk) ==
    /\ LET out == poll_ready(state, wk) IN
        /\ state' = out.state
        /\ last' = Call("poll_ready", wk, out)
        /\ reg' = IF out.ret = "Pending"
                  THEN [reg EXCEPT !.ready = wk,
                                   !.staleReady = Replaced(@, reg.ready, wk),
                                   !.may_start = FALSE,
                                   !.expect = <<>>, !.passed = {}]
                  ELSE [reg EXCEPT !.may_start = TRUE,
                                   !.expect = <<>>, !.passed = {}]
    /\ UNCHANGED <<w, r, notified, sent, received, log, tmo, hn>>

AnyStartSend(v) ==
    /\ reg.may_start
    /\ LET out == start_send(state, v) IN
        /\ state' = out.state
        /\ last' = Call("start_send", None, out)
        /\ reg' = [reg EXCEPT !.read = None, !.staleRead = {},
                              !.may_start = FALSE,
                              !.expect = WakeOpt(reg.read),
                              !.passed = reg.staleRead]
    /\ UNCHANGED <<w, r, notified, sent, received, log, tmo, hn>>

AnyPollFlush(wk) ==
    /\ LET out == poll_flush(state, wk) IN
        /\ state' = out.state
        /\ last' = Call("poll_flush", wk, out)
        /\ reg' = IF out.ret = "Pending"
                  THEN [reg EXCEPT !.flush = wk,
                                   !.staleFlush = Replaced(@, reg.flush, wk),
                                   !.expect = <<>>, !.passed = {}]
                  ELSE [reg EXCEPT !.expect = <<>>, !.passed = {}]
    /\ UNCHANGED <<w, r, notified, sent, received, log, tmo, hn>>

AnyPollClose(wk) ==
    /\ LET out == poll_close(state, wk) IN
        /\ state' = out.state
        /\ last' = Call("poll_close", wk, out)
        /\ reg' = IF out.ret = "Pending"
                  THEN [reg EXCEPT !.flush = wk,
                                   !.staleFlush = Replaced(@, reg.flush, wk),
                                   !.expect = <<>>, !.passed = {}]
                  ELSE [reg EXCEPT !.expect = <<>>, !.passed = {}]
    /\ UNCHANGED <<w, r, notified, sent, received, log, tmo, hn>>

AnyPollNext(wk) ==
    /\ LET out == poll_next(state, wk) IN
        /\ state' = out.state
        /\ last' = Call("poll_next", wk, out)
        /\ reg' = IF out.ret = "Pending"
                  THEN [reg EXCEPT !.read = wk,
                                   !.staleRead = Replaced(@, reg.read, wk),
                                   !.expect = <<>>, !.passed = {}]
                  ELSE [reg EXCEPT !.read = wk, !.staleRead = {},
                                   !.ready = None, !.staleReady = {},
                                   !.flush = None, !.staleFlush = {},
                                   !.expect = WakeOpt(reg.ready)
                                              \o WakeOpt(reg.flush),
                                   !.passed = reg.staleReady
                                              \cup reg.staleFlush]
    /\ UNCHANGED <<w, r, notified, sent, received, log, tmo, hn>>

NextWakers ==
    \/ \E wk \in SinkWakers : AnyPollReady(wk)
    \/ \E v \in Values : AnyStartSend(v)
    \/ \E wk \in SinkWakers : AnyPollFlush(wk)
    \/ \E wk \in SinkWakers : AnyPollClose(wk)
    \/ \E wk \in StreamWakers : AnyPollNext(wk)

\* =====================================================================
\* Timeout<F> (lines 291-331): the wrapped future and a futures_timer Delay.
\* The Delay is the deadline timer of the specification (a one-shot timer
\* constructed for a duration and polled for expiry); its code is not part
\* of the source, so it is modelled as the specification describes it.
\* =====================================================================
\* Largest duration given to TimeoutExt::timeout, and how far the clock runs.
MaxDuration == 2
MaxTime == 3

\* The deadline timer polled for expiry: it is expired at a poll iff its
\* duration has elapsed since it was constructed, so a timer of duration 0
\* is expired at its first poll.
Delay_expired(duration, now) == now >= duration

\* Delay::poll(ctx).is_ready()
delay_is_ready(fired) == fired

\* The wrapped future's poll: Ready(output) once it can complete.
future_poll(ready, output) ==
    IF ready THEN [ret |-> "Ready", val |-> Some(output)]
    ELSE [ret |-> "Pending", val |-> Nothing]

Timeout_poll_future_first(fired, ready, output) ==
    IF future_poll(ready, output).ret = "Ready"
    THEN [ret |-> "Ready", val |-> future_poll(ready, output).val,
          polled_future |-> TRUE]
    ELSE IF delay_is_ready(fired)
    THEN [ret |-> "Ready", val |-> Nothing, polled_future |-> TRUE]
    ELSE [ret |-> "Pending", val |-> Nothing, polled_future |-> TRUE]

Timeout_poll_drops_output(fired, ready, output) ==
    IF delay_is_ready(fired)
    THEN [ret |-> "Ready", val |-> Nothing, polled_future |-> FALSE]
    ELSE IF future_poll(ready, output).ret = "Ready"
    THEN [ret |-> "Ready", val |-> Nothing, polled_future |-> TRUE]
    ELSE [ret |-> "Pending", val |-> Nothing, polled_future |-> TRUE]

\* Timeout::poll: Ready(None) is "timed out", Ready(Some(output)) is
\* "completed"; polled_future tells whether this poll polled the future.
Timeout_poll(fired, ready, output) ==
    IF delay_is_ready(fired)
    THEN [ret |-> "Ready", val |-> Nothing, polled_future |-> FALSE]
    ELSE IF future_poll(ready, output).ret = "Ready"
    THEN [ret |-> "Ready", val |-> future_poll(ready, output).val,
          polled_future |-> TRUE]
    ELSE [ret |-> "Pending", val |-> Nothing, polled_future |-> TRUE]

NotPolled == [ret |-> "none", val |-> Nothing, polled_future |-> FALSE,
              fired |-> FALSE, ready |-> FALSE, first |-> FALSE]

\* No Timeout in use (the channel and the harness runs).
TimeoutUnused ==
    [duration |-> 0, now |-> 0, ready |-> FALSE,
     immediate |-> FALSE, output |-> 1, polls |-> "unused", out |-> NotPolled]

TimeoutLive == tmo.polls \in {"none", "some"} /\ tmo.out.ret # "Ready"

\* Time passes.
Tick ==
    /\ TimeoutLive
    /\ tmo.now < MaxTime
    /\ tmo' = [tmo EXCEPT !.now = @ + 1]
    /\ UNCHANGED <<chanVars, hn, reg>>

\* The wrapped computation becomes able to complete.
FutureBecomesReady ==
    /\ TimeoutLive
    /\ ~tmo.ready
    /\ tmo' = [tmo EXCEPT !.ready = TRUE]
    /\ UNCHANGED <<chanVars, hn, reg>>

\* One poll of the Timeout; it is not polled again after it returned Ready.
\* out.fired records whether the Delay was expired at this poll.
TimeoutPoll ==
    /\ TimeoutLive
    /\ LET fired == Delay_expired(tmo.duration, tmo.now)
           out == Timeout_poll(fired, tmo.ready, tmo.output) IN
          tmo' = [tmo EXCEPT
                    !.polls = "some",
                    !.out = [ret |-> out.ret, val |-> out.val,
                             polled_future |-> out.polled_future,
                             fired |-> fired, ready |-> tmo.ready,
                             first |-> (tmo.polls = "none")]]
    /\ UNCHANGED <<chanVars, hn, reg>>

NextTimeout ==
    \/ Tick
    \/ FutureBecomesReady
    \/ TimeoutPoll

\* =====================================================================
\* subsystem_test_harness (lines 264-289): block_on polls one select! over
\* the overseer future, the test future and the 2 s Delay, all three under
\* the waker of block_on.  select! polls its branches in a shuffled order
\* and ends with the first one that is Ready.  The two futures are scripts
\* over the context and its handle.
\* =====================================================================
\* Longest overseer script and longest test script.
MaxScript == 2
MaxTestScript == 3
\* Number of messages in the batch given to send_messages.
BatchLen == 2

HarnessWaker == "h"
Branches == {"overseer", "test", "timeout"}

\* handle.send(..).await, handle.recv().await, handle.try_recv().await,
\* drop(handle), and a future never ready
OverseerOps == {"send", "recv", "try_recv", "drop", "pend"}
\* ctx.recv().await, ctx.try_recv().await, ctx.send_message(..).await,
\* ctx.send_messages(..).await with a batch of BatchLen messages, drop(ctx),
\* and a future that is never ready
TestOps == {"recv", "try_recv", "emit", "emit_all", "drop", "pend"}

\* A future that is never ready ends the script: what would follow it
\* never runs.
EndsAtPend(sc) == \A k \in 1..(Len(sc) - 1) : sc[k] # "pend"

\* drop moves the handle (the context) out of the future: no operation on
\* it can follow, the future can only end or stay pending.
NothingAfterDrop(sc) ==
    \A k \in 1..Len(sc) :
        sc[k] = "drop" => \A j \in (k + 1)..Len(sc) : sc[j] = "pend"

Scripts(ops) ==
    {sc \in UNION {[1..n -> ops] : n \in 0..MaxScript} :
        EndsAtPend(sc) /\ NothingAfterDrop(sc)}
TestScripts ==
    {sc \in UNION {[1..n -> TestOps] : n \in 0..MaxTestScript} :
        EndsAtPend(sc) /\ NothingAfterDrop(sc)}

\* make_subsystem_context and the futures built from the two factories.
\* The k-th directive sent and the k-th message emitted carry the value k.
\* ctxLive: the context, with the sender of the unbounded queue, has not
\* been dropped; handleLive: the handle, with the receiver, has not.
\* notified is the flag block_on tests before it parks: it belongs to the
\* thread, and block_on does not clear it on entry, so it starts as the
\* earlier use of the thread left it (unparked).
HarnessStart(os, ts, unparked) ==
    [oScript |-> os, oPc |-> 1, oSub |-> "new", nSent |-> 0, dRecv |-> <<>>,
     dTried |-> <<>>, oWait |-> "none",
     tScript |-> ts, tPc |-> 1, nEmit |-> 0, uRecv |-> <<>>,
     uTried |-> <<>>,
     cell |-> single_item_sink, queue |-> <<>>, rxWaker |-> None,
     ctxLive |-> TRUE, handleLive |-> TRUE,
     fired |-> FALSE, timerWaker |-> None,
     notified |-> unparked, running |-> TRUE, polled |-> {},
     completed |-> {}, result |-> "none"]

HarnessUnused == [HarnessStart(<<>>, <<>>, FALSE) EXCEPT !.running = FALSE,
                                                   !.result = "unused"]

Polled(c, ret) == [c |-> c, ret |-> ret]

Woken(c, wakes) == [c EXCEPT !.notified = @ \/ wakes # <<>>]

handle_try_recv_no_message_yet(queue, ctxLive) ==
    IF queue = <<>>
    THEN [ret |-> "Ready", val |-> Nothing, queue |-> queue]
    ELSE [ret |-> "Ready", val |-> Some(Head(queue)), queue |-> Tail(queue)]

\* One poll of handle.try_recv(): self.rx.next().await on the unbounded
\* queue.  next() is Ready(Some(oldest message)) while the queue holds a
\* message; on the empty queue it is Pending while the context, which owns
\* the queue's only sender, is alive, and Ready(None) once it was dropped.
handle_try_recv(queue, ctxLive) ==
    IF queue # <<>>
    THEN [ret |-> "Ready", val |-> Some(Head(queue)), queue |-> Tail(queue)]
    ELSE IF ctxLive
    THEN [ret |-> "Pending", val |-> Nothing, queue |-> queue]
    ELSE [ret |-> "Ready", val |-> Nothing, queue |-> queue]

\* The handle is dropped, explicitly or with the overseer future that owns
\* it: the receiver closes the queue and discards the messages left in it.
\* Dropping the handle's SingleItemSink leaves the cell as it is.
drop_handle(c) ==
    IF c.handleLive THEN [c EXCEPT !.handleLive = FALSE, !.queue = <<>>]
    ELSE c

\* The context is dropped, explicitly or with the test future that owns it:
\* the queue loses its only sender, which closes it and wakes the task
\* registered by the receiver.  Dropping the context's SingleItemStream
\* leaves the cell as it is.
drop_ctx(c) ==
    IF c.ctxLive
    THEN Woken([c EXCEPT !.ctxLive = FALSE, !.rxWaker = None],
               WakeOpt(c.rxWaker))
    ELSE c

\* tx.send / tx.send_all of the unbounded sender for the messages
\* nEmit + 1 .. nEmit + n: they are enqueued in order; the first one takes
\* the waker registered by the receiver and wakes its task.
enqueue(c, n) ==
    IF n = 0 THEN c
    ELSE Woken([c EXCEPT !.queue = @ \o [k \in 1..n |-> c.nEmit + k],
                         !.nEmit = @ + n, !.rxWaker = None],
               WakeOpt(c.rxWaker))

\* One poll of the overseer future: it runs its script until an operation
\* is Pending or the script ends.  send is SinkExt::send on the handle's
\* sink (poll_ready, start_send, then poll_flush until Ready); try_recv
\* takes the next message of the unbounded queue, or None once the queue
\* is closed and empty, or registers the task to be woken by the next
\* enqueue or by the closing; recv is try_recv().await.expect(..), which
\* panics on None.  The future owns the handle and drops it when it ends.
\* oWait is the operation the future is suspended in.
RECURSIVE overseer_poll(_)
overseer_body(c) ==
    IF c.oPc > Len(c.oScript)
    THEN Polled(drop_handle([c EXCEPT !.oWait = "none"]), "Ready")
    ELSE IF c.oScript[c.oPc] = "send" THEN
        IF c.oSub = "new" THEN
            LET rd == poll_ready(c.cell, HarnessWaker) IN
            IF rd.ret = "Pending"
            THEN Polled([c EXCEPT !.cell = rd.state, !.oWait = "send"],
                        "Pending")
            ELSE LET ss == start_send(rd.state, c.nSent + 1) IN
                 IF ss.ret = "Panic" THEN Polled(c, "Panic")
                 ELSE overseer_poll(
                        Woken([c EXCEPT !.cell = ss.state, !.nSent = @ + 1,
                                        !.oSub = "flush"], ss.wakes))
        ELSE
            LET fl == poll_flush(c.cell, HarnessWaker) IN
            IF fl.ret = "Pending"
            THEN Polled([c EXCEPT !.cell = fl.state, !.oWait = "send"],
                        "Pending")
            ELSE overseer_poll([c EXCEPT !.oSub = "new", !.oPc = @ + 1])
    ELSE IF c.oScript[c.oPc] \in {"recv", "try_recv"} THEN
        LET tr == handle_try_recv(c.queue, c.ctxLive) IN
        IF tr.ret = "Pending"
        THEN Polled([c EXCEPT !.rxWaker = HarnessWaker,
                              !.oWait = c.oScript[c.oPc]], "Pending")
        ELSE IF c.oScript[c.oPc] = "try_recv"
        THEN overseer_poll([c EXCEPT !.dTried = Append(@, tr.val),
                                     !.queue = tr.queue, !.oPc = @ + 1])
        ELSE IF tr.val = Nothing THEN Polled(c, "PanicNotLive")
        ELSE overseer_poll([c EXCEPT !.dRecv = Append(@, tr.val[1]),
                                     !.queue = tr.queue, !.oPc = @ + 1])
    ELSE IF c.oScript[c.oPc] = "drop" THEN
        overseer_poll([drop_handle(c) EXCEPT !.oPc = @ + 1])
    ELSE Polled([c EXCEPT !.oWait = "pend"], "Pending")

\* The overseer future polled in the state c0.
overseer_poll(c0) == CHOOSE out \in {overseer_body(c) : c \in {c0}} : TRUE

\* One poll of the test future.  recv and try_recv poll the inbound stream;
\* send_message and send_messages enqueue on the unbounded queue, which
\* wakes a registered receiver, and are complete in the same poll; with the
\* handle dropped the send fails and expect(..) panics.  The future owns
\* the context and drops it when it ends.
RECURSIVE test_poll(_)
test_body(c) ==
    IF c.tPc > Len(c.tScript) THEN Polled(drop_ctx(c), "Ready")
    ELSE IF c.tScript[c.tPc] = "recv" THEN
        LET pn == poll_next(c.cell, HarnessWaker)
            c1 == Woken([c EXCEPT !.cell = pn.state], pn.wakes) IN
        IF pn.ret = "Pending" THEN Polled(c1, "Pending")
        ELSE test_poll([c1 EXCEPT !.uRecv = Append(@, recv_result(pn)),
                                  !.tPc = @ + 1])
    ELSE IF c.tScript[c.tPc] = "try_recv" THEN
        LET pn == poll_next(c.cell, HarnessWaker)
            c1 == Woken([c EXCEPT !.cell = pn.state], pn.wakes)
            res == try_recv_result(pn) IN
        test_poll([c1 EXCEPT !.uTried = Append(@, res),
                             !.uRecv = IF res.kind = "Ok" THEN Append(@, res)
                                       ELSE @,
                             !.tPc = @ + 1])
    ELSE IF c.tScript[c.tPc] \in {"emit", "emit_all"} THEN
        IF ~c.handleLive THEN Polled(c, "PanicOverseerNotLive")
        ELSE test_poll([enqueue(c, IF c.tScript[c.tPc] = "emit" THEN 1
                                   ELSE BatchLen)
                           EXCEPT !.tPc = @ + 1])
    ELSE IF c.tScript[c.tPc] = "drop" THEN
        test_poll([drop_ctx(c) EXCEPT !.tPc = @ + 1])
    ELSE Polled(c, "Pending")

\* The test future polled in the state c0.
test_poll(c0) == CHOOSE out \in {test_body(c) : c \in {c0}} : TRUE

\* One poll of the Delay: Ready once the timer fired, else it registers the
\* task's waker with the timer.
timeout_poll_never_ready(c) ==
    Polled([c EXCEPT !.timerWaker = HarnessWaker], "Pending")

timeout_poll(c) ==
    IF delay_is_ready(c.fired) THEN Polled(c, "Ready")
    ELSE Polled([c EXCEPT !.timerWaker = HarnessWaker], "Pending")

branch_poll(c, b) ==
    CASE b = "overseer" -> overseer_poll(c)
      [] b = "test" -> test_poll(c)
      [] OTHER -> timeout_poll(c)

select_arm_timeout_ignored(b) == "ok"

\* The arm of select! that runs for the branch that completed.
select_arm(b) ==
    CASE b = "overseer" -> "ok"
      [] b = "test" -> "ok"
      [] OTHER -> "timed_out"

\* Scripts given to the harness; the Delay is created just before block_on.
\* The thread is a fresh one, or one on which an earlier block_on ended in
\* a poll that invoked its waker.
InitHarness ==
    /\ InitChannel
    /\ tmo = TimeoutUnused
    /\ \E os \in Scripts(OverseerOps), ts \in TestScripts,
          unparked \in BOOLEAN :
          hn = HarnessStart(os, ts, unparked)

\* select! polls a branch it has not polled in this round.  A Ready branch
\* ends the select and the run; when all three were Pending the select is
\* Pending and block_on parks the thread.
HarnessPoll(b) ==
    /\ hn.result = "none"
    /\ hn.running
    /\ b \notin hn.polled
    /\ \E out \in {branch_poll(hn, b)} :
       \E c \in {[out.c EXCEPT !.polled = @ \cup {b}]} :
        hn' = IF out.ret = "Ready"
              THEN [c EXCEPT !.completed = {b}, !.result = select_arm(b),
                             !.running = FALSE]
              ELSE IF out.ret = "Panic"
              THEN [c EXCEPT !.result = "panic_start_send",
                             !.running = FALSE]
              ELSE IF out.ret = "PanicNotLive"
              THEN [c EXCEPT !.result = "panic_not_live",
                             !.running = FALSE]
              ELSE IF out.ret = "PanicOverseerNotLive"
              THEN [c EXCEPT !.result = "panic_overseer_not_live",
                             !.running = FALSE]
              ELSE IF c.polled = Branches
              THEN [c EXCEPT !.running = FALSE, !.polled = {}]
              ELSE c
    /\ UNCHANGED <<chanVars, tmo, reg>>

\* block_on polls again once its waker was invoked.
BlockOnWake ==
    /\ hn.result = "none"
    /\ ~hn.running
    /\ hn.notified
    /\ hn' = [hn EXCEPT !.running = TRUE, !.notified = FALSE]
    /\ UNCHANGED <<chanVars, tmo, reg>>

\* The two seconds elapse: the timer fires the Delay and wakes the task
\* registered with it.
HarnessTimerFires ==
    /\ hn.result = "none"
    /\ ~hn.fired
    /\ hn' = [hn EXCEPT !.fired = TRUE, !.timerWaker = None,
                        !.notified = @ \/ hn.timerWaker # None]
    /\ UNCHANGED <<chanVars, tmo, reg>>

NextHarness ==
    \/ \E b \in Branches : HarnessPoll(b)
    \/ BlockOnWake
    \/ HarnessTimerFires

vars == <<state, w, r, notified, sent, received, log, last, tmo, hn, reg>>

Init == InitChannel /\ tmo = TimeoutUnused /\ hn = HarnessUnused

\* future.timeout(duration): TimeoutExt::timeout, with Delay::new(duration).
InitTimeout ==
    /\ InitChannel
    /\ hn = HarnessUnused
    /\ \E d \in 0..MaxDuration, rdy \in BOOLEAN, o \in Values :
          tmo = [duration |-> d, now |-> 0, ready |-> rdy,
                 immediate |-> rdy, output |-> o, polls |-> "none",
                 out |-> NotPolled]

SpecTimeout == InitTimeout /\ [][NextTimeout]_vars

SpecHarness == InitHarness /\ [][NextHarness]_vars

SpecWakers == Init /\ [][NextWakers]_vars

WriterStep ==
    \/ SendPollReady
    \/ SendStartSend
    \/ SendPollFlush
    \/ ClosePoll
    \/ ExecutorPollWriter

ReaderStep ==
    \/ RecvPoll
    \/ ExecutorPollReader

Next ==
    \/ \E v \in Values : Send(v)
    \/ SendPollReady
    \/ SendStartSend
    \/ SendPollFlush
    \/ Close
    \/ ClosePoll
    \/ ExecutorPollWriter
    \/ AbandonSend
    \/ DropHandle
    \/ TryRecv
    \/ Recv
    \/ RecvPoll
    \/ ExecutorPollReader

Spec == Init /\ [][Next]_vars

\* The channel with suspended receives dropped as well as suspended sends.
NextCancel ==
    \/ Next
    \/ AbandonRecv

SpecCancel == Init /\ [][NextCancel]_vars

\* =====================================================================
\* Properties of the channel
\* =====================================================================
InLog(ev) == \E k \in 1..Len(log) : log[k] = ev
Pos(ev) == CHOOSE k \in 1..Len(log) : log[k] = ev
Range(seq) == {seq[k] : k \in 1..Len(seq)}
WakerPolls == {"poll_ready", "poll_flush", "poll_close"}
Reads == {"recv", "try_recv"}

\* C1: a send is reported complete (poll_flush returned Ready to it) only
\* when its value is no longer in the cell and has been returned by a
\* poll_next of the reader: every completed send's value is the value the
\* reader received at the same position.
C1_SendCompletesAfterRead ==
    /\ \A i \in 1..Len(sent) :
          InLog(<<"Wc", i>>) => /\ i <= Len(received)
                                /\ received[i] = sent[i]
    /\ (last.op = "poll_flush" /\ last.ret = "Ready") =>
          /\ last.pre.tag = "Empty"
          /\ Len(received) = Len(sent)

\* C1 witness: the second send has completed after both values were read.
C1_Witness ==
    /\ InLog(<<"Wc", 2>>)
    /\ last.op = "poll_flush"
    /\ last.ret = "Ready"

\* C2 as stated: write i completes strictly after read i starts and strictly
\* before read i completes, so when write i has completed read i has
\* started and has not completed before it.
C2_WriteBeforeReadCompletes ==
    \A i \in 1..Len(sent) :
        InLog(<<"Wc", i>>) =>
            /\ InLog(<<"Rs", i>>)
            /\ Pos(<<"Rs", i>>) < Pos(<<"Wc", i>>)
            /\ InLog(<<"Rc", i>>) => Pos(<<"Wc", i>>) < Pos(<<"Rc", i>>)

\* C2 amended: write i completes strictly after read i started and strictly
\* after read i completed (the poll_next that took the value returned it to
\* the reader before poll_flush reported Ready to the writer).
C2_WriteAfterReadCompletes ==
    \A i \in 1..Len(sent) :
        InLog(<<"Wc", i>>) =>
            /\ InLog(<<"Rs", i>>)
            /\ InLog(<<"Rc", i>>)
            /\ Pos(<<"Rs", i>>) < Pos(<<"Rc", i>>)
            /\ Pos(<<"Rc", i>>) < Pos(<<"Wc", i>>)

\* C2 witness: two writes have completed, each after its read.
C2_Witness ==
    /\ InLog(<<"Wc", 1>>)
    /\ InLog(<<"Wc", 2>>)
    /\ InLog(<<"Rc", 2>>)

\* C3: poll_ready, poll_flush and poll_close return Ready iff the cell is
\* Empty (and then leave it alone); on an occupied cell they return Pending,
\* store the caller's waker (poll_ready in ready_waker, the other two in
\* flush_waker), change nothing else and wake nobody.  Writability is false
\* exactly while the cell is occupied, and poll_close equals poll_flush.
C3_ReadyIffEmpty ==
    /\ last.op \in WakerPolls =>
          /\ last.ret \in {"Ready", "Pending"}
          /\ last.ret = "Ready" <=> last.pre.tag = "Empty"
          /\ last.wakes = <<>>
          /\ last.pre.tag = "Empty" => state = last.pre
          /\ last.pre.tag = "Item" =>
                state = IF last.op = "poll_ready"
                        THEN [last.pre EXCEPT !.ready_waker = last.by]
                        ELSE [last.pre EXCEPT !.flush_waker = last.by]
    /\ \A wk \in Wakers :
          /\ poll_ready(state, wk).ret = "Ready" <=> state.tag = "Empty"
          /\ poll_close(state, wk) = poll_flush(state, wk)

\* C3 witness: poll_ready was called on an occupied cell.
C3_Witness ==
    /\ last.op = "poll_ready"
    /\ last.pre.tag = "Item"
    /\ last.ret = "Pending"

\* C4: the writer calls start_send only right after its own poll_ready
\* returned Ready, so between the two the cell stays Empty whatever the
\* reader does: start_send never finds an item, never panics, and the cell
\* then holds exactly the value passed.
C4_StartSendOnlyOnEmpty ==
    /\ w.pc # "panicked"
    /\ w.pc = "start" => state.tag = "Empty"
    /\ last.op = "start_send" =>
          /\ last.pre.tag = "Empty"
          /\ last.ret = "Ok"
          /\ state = Item(sent[Len(sent)], None, None)

\* C4 witness: a second start_send ran after the reader had polled.
C4_Witness ==
    /\ last.op = "start_send"
    /\ Len(sent) = 2
    /\ last.pre.read_waker = ReaderWaker

\* C6 as stated: a write wakes the reader exactly when the reader is parked
\* (once), a read that takes the item wakes the writer exactly when the
\* writer is parked (once), and nobody who is not parked is woken.
C6_WakesExactlyOnceOnlyParked ==
    /\ last.op = "start_send" =>
          last.wakes = IF last.pre_r = "parked" THEN <<ReaderWaker>> ELSE <<>>
    /\ (last.op \in Reads /\ last.ret = "Ready") =>
          last.wakes = IF last.pre_w \in WriterParked THEN <<WriterWaker>>
                       ELSE <<>>

\* C6 amended: each call invokes exactly the wakers registered in the cell
\* it found, each registration once: start_send the read waker, a poll_next
\* that takes the item the ready waker and then the flush waker, every other
\* call none.  So a parked reader is woken exactly once by the next write
\* and a parked writer at least once by the next read.  A registration is
\* not removed when its owner stops waiting, so a reader that is not parked
\* can be woken and one read can invoke the writer's waker twice.
C6_WakesRegisteredOnce ==
    /\ last.op = "start_send" =>
          /\ last.wakes = WakeOpt(last.pre.read_waker)
          /\ last.pre_r = "parked" => last.wakes = <<ReaderWaker>>
    /\ (last.op \in Reads /\ last.ret = "Ready") =>
          /\ last.wakes = WakeOpt(last.pre.ready_waker)
                          \o WakeOpt(last.pre.flush_waker)
          /\ last.pre_w \in WriterParked => WriterWaker \in Range(last.wakes)
          /\ Range(last.wakes) \subseteq {WriterWaker}
    /\ (last.op \in Reads /\ last.ret = "Pending") => last.wakes = <<>>
    /\ last.op \in WakerPolls => last.wakes = <<>>
    /\ \A t \in Wakers : t \in Range(last.wakes) => notified[t]

\* C6 witness: a write woke the parked reader.
C6_Witness ==
    /\ last.op = "start_send"
    /\ last.pre_r = "parked"
    /\ last.wakes = <<ReaderWaker>>

\* ---------------------------------------------------------------------
\* Scheduling: a task in the middle of a poll keeps running, the executor
\* polls a task whose waker was invoked, and the reader keeps reading.
\* Nothing obliges the writer to start another send, to abandon one or to
\* drop the handle.
\* ---------------------------------------------------------------------
ReaderReads == Recv \/ TryRecv

FairSpec ==
    /\ Init
    /\ [][Next]_vars
    /\ WF_vars(WriterStep)
    /\ WF_vars(ReaderStep)
    /\ WF_vars(ReaderReads)

WriterBusy == w.pc \in {"ready", "start", "flush", "close"} \cup WriterParked
WriterAtRest == w.pc \in {"idle", "closed", "dropped"}

\* A task is parked although what it waits for already holds and its waker
\* was not invoked.
LostWake ==
    \/ r.pc = "parked" /\ state.tag = "Item" /\ ~notified[ReaderWaker]
    \/ w.pc \in WriterParked /\ state.tag = "Empty" /\ ~notified[WriterWaker]

\* C5: no wake is lost.  No task is ever parked on a condition that already
\* holds without a wake pending for it; every send (and close) in progress
\* eventually finishes, every value stored is eventually taken, and a
\* reader waiting while a value is stored eventually gets it.
C5_NoWakeLost ==
    /\ [] ~LostWake
    /\ WriterBusy ~> WriterAtRest
    /\ (state.tag = "Item") ~> (state.tag = "Empty")
    /\ (r.pc \in {"recv", "parked"} /\ state.tag = "Item") ~> (r.res.kind = "Ok")

\* C5 witness: the writer parked in poll_flush was woken by the read and the
\* reader parked in poll_next was woken by the next write.
C5_Witness ==
    /\ Len(sent) = 2
    /\ last.op = "start_send"
    /\ last.pre_r = "parked"
    /\ notified[ReaderWaker]
    /\ InLog(<<"Wc", 1>>)

\* C7 as stated: once the handle is dropped, a recv suspended on the empty
\* cell eventually resolves with SubsystemError, and try_recv on the empty
\* cell reports Err.
C7_PeerClosedPropagates ==
    /\ [] ((w.pc = "dropped" /\ last.op = "try_recv" /\ last.pre.tag = "Empty")
              => r.res.kind = "Err")
    /\ (w.pc = "dropped" /\ r.pc = "parked" /\ state.tag = "Empty")
          ~> (r.pc = "idle" /\ r.res.kind = "Err")

\* =====================================================================
\* Properties of Timeout and of the harness
\* =====================================================================
TimedOut(out) == out.ret = "Ready" /\ out.val = Nothing
Completed(out) == out.ret = "Ready" /\ out.val # Nothing

\* C8: a poll that finds the deadline expired reports "timed out" without
\* polling the wrapped future, even if that future is ready too; and with
\* a duration of zero and a future that is ready from the start the only
\* poll is the first one and its outcome is "timed out", never "completed".
C8_DeadlineFirstAndZeroAlwaysTimesOut ==
    /\ (tmo.polls = "some" /\ tmo.out.fired) =>
          TimedOut(tmo.out) /\ ~tmo.out.polled_future
    /\ (tmo.polls = "some" /\ tmo.duration = 0 /\ tmo.immediate) =>
          /\ TimedOut(tmo.out)
          /\ tmo.out.first
          /\ tmo.out.ready
          /\ ~tmo.out.polled_future

\* C8 witness: a Timeout of duration zero over a future that is ready from
\* the start was polled: the deadline and the future were both ready at
\* that poll and it reported "timed out".
C8_Witness ==
    /\ tmo.polls = "some"
    /\ tmo.duration = 0
    /\ tmo.immediate
    /\ tmo.out.fired
    /\ tmo.out.ready
    /\ TimedOut(tmo.out)

\* C9: a poll that finds the Delay not ready polls the wrapped future and
\* returns Some(its output) iff it is ready, Pending otherwise.  "Completed"
\* always carries the wrapped future's own output, and "timed out" is
\* reported only when the Delay was ready, so not before its duration.
C9_TimeoutResult ==
    tmo.polls = "some" =>
        /\ ~tmo.out.fired =>
              /\ tmo.out.polled_future
              /\ tmo.out.ready => /\ Completed(tmo.out)
                                  /\ tmo.out.val = Some(tmo.output)
              /\ ~tmo.out.ready => tmo.out.ret = "Pending"
        /\ Completed(tmo.out) => /\ tmo.out.val = Some(tmo.output)
                                 /\ tmo.out.ready
                                 /\ ~tmo.out.fired
        /\ TimedOut(tmo.out) => tmo.out.fired /\ tmo.now >= tmo.duration
        /\ tmo.out.ret \in {"Ready", "Pending"}

\* C9 witness: the Timeout completed with the output after a Pending poll.
C9_Witness ==
    /\ tmo.polls = "some"
    /\ Completed(tmo.out)
    /\ ~tmo.out.first
    /\ tmo.output = 2

\* The panics of the two futures: handle.recv on the closed queue and
\* send_message / send_messages with the handle dropped.
ParticipantPanics == {"panic_not_live", "panic_overseer_not_live"}

\* C10: the harness run ends with the first of the three branches that
\* returns Ready, so at most one of them ever completes.  If that is the
\* overseer or the test future, which then has finished its script, the
\* harness returns normally whatever the other one has left to do; it panics
\* with "test timed out instead of completing" iff the Delay is the branch
\* that completed, neither participant having completed.  A participant
\* that panics in an expect(..) has not completed: its panic ends the run
\* with its own message, never with success nor with "test timed out".
C10_FirstCompletionEndsRun ==
    /\ hn.result \in {"unused", "none", "ok", "timed_out"}
                         \cup ParticipantPanics
    /\ Cardinality(hn.completed) <= 1
    /\ hn.result \in {"unused", "none"} \cup ParticipantPanics
          <=> hn.completed = {}
    /\ hn.result = "panic_not_live" =>
          /\ ~hn.ctxLive
          /\ hn.oPc <= Len(hn.oScript)
          /\ hn.oScript[hn.oPc] = "recv"
    /\ hn.result = "panic_overseer_not_live" =>
          /\ ~hn.handleLive
          /\ hn.tPc <= Len(hn.tScript)
          /\ hn.tScript[hn.tPc] \in {"emit", "emit_all"}
    /\ hn.result = "ok" <=> hn.completed \in {{"overseer"}, {"test"}}
    /\ hn.result = "timed_out" <=> hn.completed = {"timeout"}
    /\ "overseer" \in hn.completed => hn.oPc > Len(hn.oScript)
    /\ "test" \in hn.completed => hn.tPc > Len(hn.tScript)
    /\ "timeout" \in hn.completed => hn.fired
    /\ hn.result # "none" => ~hn.running

\* C10 witness: the overseer finished a script with a send in it and the
\* harness returned although the test future has operations left.
C10_Witness ==
    /\ hn.result = "ok"
    /\ hn.completed = {"overseer"}
    /\ hn.nSent >= 1
    /\ hn.tPc <= Len(hn.tScript)

\* ---------------------------------------------------------------------
\* Harness scenarios
\* ---------------------------------------------------------------------
\* The test future never polls its receive: it stays pending for ever,
\* possibly after emitting messages or dropping the context.
NeverReads(ts) ==
    \E k \in 1..Len(ts) :
        /\ ts[k] = "pend"
        /\ \A j \in 1..(k - 1) : ts[j] \in {"emit", "emit_all", "drop"}

TimeoutPath ==
    /\ Len(hn.oScript) >= 1
    /\ hn.oScript[1] = "send"
    /\ NeverReads(hn.tScript)

\* block_on keeps polling the select while it runs and polls it again once
\* its waker was invoked; the timer eventually fires the Delay.
FairSpecHarness ==
    /\ InitHarness
    /\ [][NextHarness]_vars
    /\ WF_vars(\E b \in Branches : HarnessPoll(b))
    /\ WF_vars(BlockOnWake)
    /\ WF_vars(HarnessTimerFires)

\* C11: when the overseer starts with a send and the test future never
\* reads, the send never completes (the overseer stays at its first
\* operation and is never the completed branch), the run never ends with
\* success, and once the timer has fired the run ends with the
\* "test timed out" panic: it does not hang.
C11_TimeoutPath ==
    /\ [] (TimeoutPath =>
              /\ hn.result \in {"none", "timed_out"}
              /\ hn.oPc = 1
              /\ hn.completed \subseteq {"timeout"}
              /\ hn.uRecv = <<>>)
    /\ TimeoutPath ~> (hn.result = "timed_out")

\* C11 witness: the directive is stored, nobody read it and the run ended
\* with the panic of the Delay's arm.
C11_Witness ==
    /\ TimeoutPath
    /\ hn.result = "timed_out"
    /\ hn.nSent = 1
    /\ hn.cell.tag = "Item"
    /\ hn.cell.flush_waker = HarnessWaker

\* The overseer sends directive D (value 1), receives one message and
\* finishes; the test future does a blocking receive and then emits M
\* (value 1 of the queue), whatever it does afterwards.
SuccessPath ==
    /\ hn.oScript = <<"send", "recv">>
    /\ Len(hn.tScript) >= 2
    /\ hn.tScript[1] = "recv"
    /\ hn.tScript[2] = "emit"

GotD == [kind |-> "Ok", val |-> Some(1)]

\* After emitting M the test future suspends (it awaits another directive
\* or is pending), or it runs to its end without suspending.
UnitSuspendsAfterEmit ==
    \E k \in 3..Len(hn.tScript) : hn.tScript[k] \in {"recv", "pend"}

\* The scheduling of block_on with nothing said about when the two seconds
\* elapse.
FairSpecHarnessInTime ==
    /\ InitHarness
    /\ [][NextHarness]_vars
    /\ WF_vars(\E b \in Branches : HarnessPoll(b))
    /\ WF_vars(BlockOnWake)

\* C12 as stated: on the success path with the deadline not expired, the
\* run ends only with success, the unit having received exactly D, the
\* overseer having received exactly M and having finished; and the run
\* does end unless the deadline expires.
C12_DriverAlwaysFinishes ==
    /\ [] ((SuccessPath /\ ~hn.fired) =>
              /\ hn.result \in {"none", "ok"}
              /\ (hn.result = "none" /\ ~hn.running) => hn.notified
              /\ hn.result = "ok" =>
                    /\ hn.uRecv = <<GotD>>
                    /\ hn.dRecv = <<1>>
                    /\ hn.oPc > Len(hn.oScript)
                    /\ hn.completed = {"overseer"})
    /\ SuccessPath ~> (hn.result = "ok" \/ hn.fired)

\* C12 amended: on the success path with the deadline not expired the run
\* never blocks and ends only with success, the unit's recv having
\* returned exactly D and M having been emitted.  The overseer's recv has
\* returned exactly M and the overseer has finished iff the test future
\* suspends after emitting M; if it runs to its end instead, the run ends
\* with the test future's completion in the poll that emitted M, the
\* overseer's recv has returned nothing and the overseer has not finished.
C12_SuccessPath ==
    /\ [] ((SuccessPath /\ ~hn.fired) =>
              /\ hn.result \in {"none", "ok"}
              /\ (hn.result = "none" /\ ~hn.running) => hn.notified
              /\ hn.uRecv \in {<<>>, <<GotD>>}
              /\ hn.dRecv \in {<<>>, <<1>>}
              /\ hn.result = "ok" =>
                    /\ hn.uRecv = <<GotD>>
                    /\ hn.nEmit >= 1
                    /\ IF UnitSuspendsAfterEmit
                       THEN /\ hn.completed = {"overseer"}
                            /\ hn.dRecv = <<1>>
                            /\ hn.oPc > Len(hn.oScript)
                       ELSE /\ hn.completed = {"test"}
                            /\ hn.dRecv = <<>>
                            /\ hn.oPc <= Len(hn.oScript))
    /\ SuccessPath ~> (hn.result = "ok" \/ hn.fired)

\* C12 witness: the run ended with the overseer finished, D and M received,
\* the Delay not fired.
C12_Witness ==
    /\ SuccessPath
    /\ ~hn.fired
    /\ hn.result = "ok"
    /\ hn.completed = {"overseer"}
    /\ hn.uRecv = <<GotD>>
    /\ hn.dRecv = <<1>>

\* ---------------------------------------------------------------------
\* TestSubsystemContextHandle::try_recv
\* ---------------------------------------------------------------------
AtOp(op) == hn.oPc <= Len(hn.oScript) /\ hn.oScript[hn.oPc] = op

\* The try_recv calls that returned a message.
RECURSIVE Somes(_)
Somes(seq) ==
    IF seq = <<>> THEN <<>>
    ELSE IF Head(seq) = Nothing THEN Somes(Tail(seq))
    ELSE <<Head(seq)>> \o Somes(Tail(seq))

\* C13 as stated: handle.try_recv never suspends the overseer: with the
\* queue empty and the context alive it returns at once.
C13_HandleTryRecvNeverSuspends ==
    hn.oWait # "try_recv"

\* C13 amended: handle.try_recv suspends the overseer while the queue is
\* empty and the context is alive: it registers the task to be woken by
\* the next message or by the drop of the context.  It returns
\* Some(message), the oldest one emitted and not yet received, while there
\* is one, and None only when the context was dropped and every emitted
\* message was received; it never returns without a message while the
\* context is alive.  A message emitted, or the context dropped, while it
\* is suspended wakes it, and it is polled again.
C13_HandleTryRecvSuspends ==
    /\ \A k \in 1..Len(hn.dTried) :
          IF hn.dTried[k] = Nothing
          THEN /\ ~hn.ctxLive
               /\ hn.queue = <<>>
               /\ Len(Somes(hn.dTried)) + Len(hn.dRecv) = hn.nEmit
               /\ \A j \in k..Len(hn.dTried) : hn.dTried[j] = Nothing
          ELSE hn.dTried[k][1] \in 1..hn.nEmit
    /\ hn.handleLive =>
          Len(Somes(hn.dTried)) + Len(hn.dRecv) + Len(hn.queue) = hn.nEmit
    /\ (hn.oWait = "try_recv" /\ hn.result = "none") =>
          /\ AtOp("try_recv")
          /\ \/ hn.queue = <<>> /\ hn.ctxLive /\ hn.rxWaker = HarnessWaker
             \/ hn.notified
             \/ hn.running /\ "overseer" \notin hn.polled
    /\ (AtOp("try_recv") /\ "overseer" \in hn.polled /\ hn.result = "none")
          => hn.oWait = "try_recv"

\* C13 witness: the overseer is suspended in try_recv on the empty queue,
\* nothing left to run until a message is emitted or the Delay fires.
C13_Witness ==
    /\ hn.oWait = "try_recv"
    /\ hn.ctxLive
    /\ hn.queue = <<>>
    /\ hn.rxWaker = HarnessWaker
    /\ hn.result = "none"
    /\ ~hn.running
    /\ ~hn.notified
    /\ hn.tPc <= Len(hn.tScript)

\* =====================================================================
\* Properties of the single calls
\* =====================================================================
\* C14: a poll_next (from recv or try_recv) that finds an item takes it in
\* the one call: the cell is Empty afterwards, the ready waker and then the
\* flush waker registered in the cell are invoked once each if present and
\* nobody else is, and the call returns Ready(Some(item)) with the item the
\* last start_send stored.  A poll_next that finds the cell Empty returns
\* Pending and wakes nobody.  Either way the cell is then Empty with the
\* caller's waker as its read waker.
C14_PollNext ==
    last.op \in Reads =>
        /\ state = Empty(last.by)
        /\ last.pre.tag = "Item" =>
              /\ last.ret = "Ready"
              /\ last.val = Some(last.pre.item)
              /\ received = sent
              /\ received[Len(received)] = last.pre.item
              /\ last.wakes = WakeOpt(last.pre.ready_waker)
                              \o WakeOpt(last.pre.flush_waker)
              /\ Len(last.wakes) <= 2
              /\ \A t \in Range(last.wakes) : notified[t]
        /\ last.pre.tag = "Empty" =>
              /\ last.ret = "Pending"
              /\ last.val = Nothing
              /\ last.wakes = <<>>

\* C14 witness: poll_next took an item from a cell holding both a ready
\* waker and a flush waker.
C14_Witness ==
    /\ last.op \in Reads
    /\ last.pre.tag = "Item"
    /\ last.pre.ready_waker # None
    /\ last.pre.flush_waker # None
    /\ last.ret = "Ready"
    /\ state = Empty(ReaderWaker)

\* C15: start_send(value) on an Empty cell invokes the read waker
\* registered in it, if any, and nobody else; the registration is gone with
\* the Empty cell it was part of: the cell becomes Item holding exactly the
\* value passed, with no ready waker and no flush waker.  It returns Ok.
C15_StartSendOnEmpty ==
    /\ (last.op = "start_send" /\ last.pre.tag = "Empty") =>
          /\ last.ret = "Ok"
          /\ w.item # Nothing
          /\ state = Item(w.item[1], None, None)
          /\ sent[Len(sent)] = w.item[1]
          /\ last.wakes = WakeOpt(last.pre.read_waker)
          /\ last.pre.read_waker # None => notified[last.pre.read_waker]
    /\ \A v \in Values, rw \in Wakers \cup {None} :
          /\ start_send(Empty(rw), v).ret = "Ok"
          /\ start_send(Empty(rw), v).state = Item(v, None, None)
          /\ start_send(Empty(rw), v).wakes = WakeOpt(rw)

\* C15 witness: start_send stored the second value in a cell that held the
\* reader's waker, and invoked it.
C15_Witness ==
    /\ last.op = "start_send"
    /\ last.pre = Empty(ReaderWaker)
    /\ last.wakes = <<ReaderWaker>>
    /\ state = Item(2, None, None)
    /\ Len(sent) = 2

\* C16: the cell keeps at most one waker per role and the last registration
\* wins.  In every state the cell holds exactly the latest registration of
\* each role: the read waker only while Empty (the latest caller of
\* poll_next), the ready and flush wakers only while it holds an item (the
\* latest caller told to wait by poll_ready, and by poll_flush or
\* poll_close).  A registration replaces the one before it, and a call that
\* wakes a role invokes the latest registration of that role and nothing
\* else, so never a waker that a later registration of that role replaced.
C16_LastRegistrationWins ==
    /\ state.tag = "Empty" =>
          /\ state.read_waker = reg.read
          /\ reg.ready = None
          /\ reg.flush = None
    /\ state.tag = "Item" =>
          /\ state.ready_waker = reg.ready
          /\ state.flush_waker = reg.flush
          /\ reg.read = None
    /\ last.wakes = reg.expect
    /\ last.op = "start_send" => Range(last.wakes) \cap reg.passed = {}
    /\ (last.op \in WakerPolls /\ last.ret = "Pending") =>
          /\ last.op = "poll_ready" => state.ready_waker = last.by
          /\ last.op # "poll_ready" => state.flush_waker = last.by
    /\ last.op = "poll_next" => state = Empty(last.by)

\* C16 witness: poll_ready was told to wait under one waker and then under
\* another; the read that took the item woke the second one only.
C16_Witness ==
    /\ last.op = "poll_next"
    /\ last.ret = "Ready"
    /\ last.pre.ready_waker = WriterWaker2
    /\ last.wakes = <<WriterWaker2>>
    /\ reg.passed = {WriterWaker}

\* ---------------------------------------------------------------------
\* Cancellation
\* ---------------------------------------------------------------------
\* The cell without its wakers.
Content(st) == IF st.tag = "Empty" THEN <<"Empty">> ELSE <<"Item", st.item>>

\* C17 as stated: when a suspended send or a suspended recv is dropped, the
\* cell afterwards holds no waker of the dropped operation.
C17_DropDiscardsRegistration ==
    [][/\ AbandonSend =>
            (state'.tag = "Item" =>
                /\ state'.ready_waker # WriterWaker
                /\ state'.flush_waker # WriterWaker)
       /\ AbandonRecv =>
            (state'.tag = "Empty" => state'.read_waker # ReaderWaker)]_vars

\* C17 amended: dropping a suspended send or recv leaves the cell exactly
\* as it is, the waker of the dropped operation included; the registration
\* stays until a later poll of that role overwrites it or the next wake of
\* that role invokes it, which can wake a task that no longer waits.  What
\* the later calls return does not depend on the wakers in the cell: the
\* same Ready or Pending, the same item, the same content of the cell.
C17_DropKeepsRegistration ==
    /\ [][(AbandonSend \/ AbandonRecv) =>
            /\ state' = state
            /\ notified' = notified
            /\ sent' = sent
            /\ received' = received]_vars
    /\ [] (\A wk \in Wakers, v \in Values :
            LET bare == IF state.tag = "Empty" THEN Empty(None)
                        ELSE Item(state.item, None, None) IN
            /\ poll_ready(state, wk).ret = poll_ready(bare, wk).ret
            /\ poll_flush(state, wk).ret = poll_flush(bare, wk).ret
            /\ poll_close(state, wk).ret = poll_close(bare, wk).ret
            /\ poll_next(state, wk).ret = poll_next(bare, wk).ret
            /\ poll_next(state, wk).val = poll_next(bare, wk).val
            /\ poll_next(state, wk).state = poll_next(bare, wk).state
            /\ start_send(state, v).ret = start_send(bare, v).ret
            /\ Content(start_send(state, v).state)
                  = Content(start_send(bare, v).state)
            /\ Content(poll_ready(state, wk).state) = Content(state)
            /\ Content(poll_flush(state, wk).state) = Content(state))
    /\ [] ((last.op \in Reads /\ last.ret = "Ready") =>
              last.wakes = WakeOpt(last.pre.ready_waker)
                           \o WakeOpt(last.pre.flush_waker))
    /\ [] (last.op = "start_send" =>
              last.wakes = WakeOpt(last.pre.read_waker))

\* C17 witness: the send suspended in poll_flush was dropped, and the read
\* that took its item invoked the waker it had left in the cell.
C17_Witness ==
    /\ last.op \in Reads
    /\ last.ret = "Ready"
    /\ last.pre_w = "idle"
    /\ last.pre.flush_waker = WriterWaker
    /\ WriterWaker \in Range(last.wakes)

\* C18: ctx.try_recv() is one poll of the stream and never suspends: the
\* reader is idle again with a result right after it.  The result is
\* Ok(Some(d)) exactly when the cell held an item, which is d; the cell is
\* then Empty and a writer parked on that item has been woken.  The result
\* is Ok(None) exactly when the cell was Empty, and the cell stays Empty.
C18_TryRecvNeverSuspends ==
    last.op = "try_recv" =>
        /\ r.pc = "idle"
        /\ r.res.kind \in {"Ok", "OkNone"}
        /\ r.res.kind = "Ok" <=> last.pre.tag = "Item"
        /\ r.res.kind = "OkNone" <=> last.pre.tag = "Empty"
        /\ state.tag = "Empty"
        /\ last.pre.tag = "Item" =>
              /\ r.res.val = Some(last.pre.item)
              /\ received[Len(received)] = last.pre.item
              /\ last.pre_w \in WriterParked => notified[WriterWaker]
        /\ last.pre.tag = "Empty" =>
              /\ r.res.val = Nothing
              /\ last.wakes = <<>>

\* C18 witness: try_recv took the item of a send parked in poll_flush and
\* woke it.
C18_Witness ==
    /\ last.op = "try_recv"
    /\ last.pre.tag = "Item"
    /\ last.pre_w = "parked_flush"
    /\ notified[WriterWaker]
    /\ r.res = [kind |-> "Ok", val |-> Some(last.pre.item)]

\* C19: in-order, exactly-once delivery.  The values returned by poll_next
\* are a prefix of the values passed to start_send; the two sequences differ
\* in length by at most one, and the cell holds an item exactly when they
\* differ, the item being the one value not yet delivered.
C19_InOrderExactlyOnce ==
    /\ Len(received) <= Len(sent)
    /\ Len(sent) <= Len(received) + 1
    /\ \A i \in 1..Len(received) : received[i] = sent[i]
    /\ state.tag = "Item" <=> Len(sent) = Len(received) + 1
    /\ state.tag = "Item" => state.item = sent[Len(sent)]
    /\ state.tag = "Empty" => received = sent

\* C19 witness: the first value was delivered and the second, a different
\* one, is in the cell.
C19_Witness ==
    /\ Len(sent) = 2
    /\ Len(received) = 1
    /\ sent[1] # sent[2]
    /\ state.tag = "Item"
    /\ state.item = sent[2]

\* C20: a send dropped while suspended in poll_flush does not take its value
\* back: the drop leaves the cell as it is, so a value stored by start_send
\* and not yet read stays in the cell and is the value the next poll_next
\* returns.  After that read the cell is Empty, so poll_ready of a fresh
\* send is Ready and its start_send finds the cell Empty.  The channel never
\* stays unwritable: a value left in the cell is eventually read, and a
\* fresh send suspended in poll_ready is woken by that read.
C20_AbandonedSendKeepsValue ==
    /\ [][AbandonSend =>
            /\ state' = state
            /\ sent' = sent
            /\ (w.pc = "parked_flush" /\ state.tag = "Item") =>
                  /\ state'.item = sent[w.idx]
                  /\ Len(received) = w.idx - 1]_vars
    /\ [] ((w.pc = "idle" /\ state.tag = "Item") =>
              /\ state.item = sent[Len(sent)]
              /\ Len(received) = Len(sent) - 1
              /\ poll_next(state, ReaderWaker).val = Some(sent[Len(sent)])
              /\ poll_ready(poll_next(state, ReaderWaker).state,
                            WriterWaker).ret = "Ready")
    /\ [] (w.pc = "start" => state.tag = "Empty")
    /\ (w.pc = "idle" /\ state.tag = "Item")
          ~> (state.tag = "Empty" /\ received = sent)
    /\ (w.pc = "parked_ready") ~> (w.pc # "parked_ready")

\* C20 witness: the first send was dropped before it completed, its value
\* was read all the same, and poll_ready of the next send returned Ready.
C20_Witness ==
    /\ last.op = "poll_ready"
    /\ last.ret = "Ready"
    /\ w.pc = "start"
    /\ Len(sent) = 1
    /\ received = sent
    /\ ~InLog(<<"Wc", 1>>)

====
